---------------------------- MODULE Spec2Model ----------------------------
(***************************************************************************)
(* Model of api/index.py: the TeleSocial proxy.  One FastAPI application   *)
(* with two GET routes ("/" and "/api/proxy"), wrapped in CORSMiddleware.  *)
(* A string is a sequence of one-character strings; fixed literals of the  *)
(* source (message prefixes, the base URL) are kept as single elements.    *)
(***************************************************************************)
EXTENDS Integers, Sequences, FiniteSets, TLC

(* ------------------------------ bounds --------------------------------- *)

\* Longest `url` query value that is enumerated.
MaxUrlLen == 2

\* Redirect limit of the HTTP client, scaled down (httpx's default is 20).
MaxRedirects == 2

\* Characters a `url` value is drawn from: unreserved ones, reserved
\* delimiters, the escape character itself, a query-string special ("+"),
\* a space and one non-ASCII character (written "U+00E9", e with acute).
Alphabet == {"a", "2", "~", "/", ":", "?", "&", "%", "+", " ", "U+00E9"}

\* Code points of the characters that occur in the model.
Ord == ("a" :> 97) @@ ("b" :> 98) @@ ("c" :> 99) @@ ("2" :> 50) @@ ("~" :> 126)
       @@ ("/" :> 47) @@ (":" :> 58) @@ ("?" :> 63) @@ ("&" :> 38)
       @@ ("%" :> 37) @@ ("+" :> 43) @@ (" " :> 32) @@ ("U+00E9" :> 233)
       @@ ("=" :> 61)

RECURSIVE SeqsUpTo(_, _)
SeqsUpTo(S, n) ==
    IF n = 0 THEN {<< >>}
    ELSE LET shorter == SeqsUpTo(S, n - 1)
         IN  shorter \cup {Append(s, c) : s \in {t \in shorter : Len(t) = n - 1}, c \in S}

Urls == SeqsUpTo(Alphabet, MaxUrlLen)

\* The `url` values used where the upstream's answers are enumerated in
\* full, and where two requests are handled concurrently.
FewUrls == {<< >>, <<"a">>, <<"/", "a">>}

(* ----------------------- urllib.parse.quote ---------------------------- *)

HexDigits == <<"0", "1", "2", "3", "4", "5", "6", "7",
               "8", "9", "A", "B", "C", "D", "E", "F">>

\* str.encode("utf-8") of one character (code points below 0x800).
Utf8(c) ==
    LET n == Ord[c]
    IN  IF n < 128 THEN <<n>>
        ELSE <<192 + (n \div 64), 128 + (n % 64)>>

\* '%{:02X}' of one byte.
PercentByte(b) == <<"%", HexDigits[(b \div 16) + 1], HexDigits[(b % 16) + 1]>>

\* The characters quote() never escapes: letters, digits and "_.-~".
AlwaysSafe(c) ==
    LET n == Ord[c]
    IN  \/ (n >= 65 /\ n <= 90)
        \/ (n >= 97 /\ n <= 122)
        \/ (n >= 48 /\ n <= 57)
        \/ n \in {95, 46, 45, 126}

RECURSIVE PercentBytes(_)
PercentBytes(bs) ==
    IF bs = << >> THEN << >>
    ELSE PercentByte(Head(bs)) \o PercentBytes(Tail(bs))

RECURSIVE QuoteWith(_, _)
QuoteWith(s, safe) ==
    IF s = << >> THEN << >>
    ELSE (IF AlwaysSafe(Head(s)) \/ Head(s) \in safe
          THEN <<Head(s)>>
          ELSE PercentBytes(Utf8(Head(s))))
         \o QuoteWith(Tail(s), safe)

\* quote() with its default safe set, safe='/'.
quote_default_safe(s) == QuoteWith(s, {"/"})

\* urllib.parse.quote(url, safe='')
quote(s) == QuoteWith(s, {})


(* --------------------------- configuration ----------------------------- *)

\* os.getenv("TARGET_API_BASE_URL", <default>), read once at import.
TARGET_API_BASE_URL == "https://tele-social.vercel.app/down"

Requests == {"r1", "r2"}

(* ------------------------- maps and responses -------------------------- *)

\* A header map or query map with no entries.
NoEntries == [k \in {} |-> ""]

\* dict.get(key, default)
Get(map, key, default) == IF key \in DOMAIN map THEN map[key] ELSE default

NoResponse == [status |-> 0, media |-> "none", key |-> "", content |-> << >>,
               headers |-> NoEntries]

NoUpstream == [kind |-> "none", status |-> 0, headers |-> NoEntries,
               content |-> << >>, error |-> << >>]

\* starlette Response(content, status_code, headers)
Response(content, status_code, headers) ==
    [status |-> status_code, media |-> "raw", key |-> "", content |-> content,
     headers |-> headers]

\* starlette JSONResponse({key: value}, status_code)
JSONResponse(key, value, status_code) ==
    [status |-> status_code, media |-> "json", key |-> key, content |-> value,
     headers |-> [k \in {"Content-Type"} |-> "application/json"]]

\* Statuses for which the framework sends an HTTPException without a body.
BodyAllowed(status_code) ==
    ~ (status_code < 200 \/ status_code \in {204, 205, 304})

\* raise HTTPException(status_code, detail), as rendered by the framework's
\* exception handler, which runs inside the CORS middleware.
HTTPException(status_code, detail) ==
    IF BodyAllowed(status_code)
    THEN JSONResponse("detail", detail, status_code)
    ELSE [status |-> status_code, media |-> "empty", key |-> "",
          content |-> << >>, headers |-> NoEntries]

\* An exception that leaves proxy_request is answered by the server-error
\* layer, which wraps the whole middleware stack.
ServerError ==
    [status |-> 500, media |-> "text", key |-> "",
     content |-> <<"Internal Server Error">>,
     headers |-> [k \in {"Content-Type"} |-> "text/plain; charset=utf-8"]]

\* app.add_middleware(CORSMiddleware, allow_origins=["*"], ...): a response
\* that passes through the middleware gets the allow-origin header when the
\* request carried an Origin header.
CORSMiddleware(response, hasOrigin) ==
    IF hasOrigin
    THEN [response EXCEPT !.headers =
            [k \in DOMAIN response.headers
                   \cup {"access-control-allow-origin", "access-control-allow-credentials"} |->
                IF k = "access-control-allow-origin" THEN "*"
                ELSE IF k = "access-control-allow-credentials" THEN "true"
                ELSE response.headers[k]]]
    ELSE response

(* ------------------------------ upstream ------------------------------- *)

SuccessStatuses == {200, 206, 299}
ErrorStatuses   == {300, 304, 404, 500}

ContentTypes        == {"video/mp4", "application/json"}
ContentDispositions == {"attachment; filename=x.mp4", "inline"}

UpstreamHeaders ==
    {NoEntries}
    \cup {[k \in {"content-type"} |-> ct] : ct \in ContentTypes}
    \cup {[k \in {"content-disposition"} |-> cd] : cd \in ContentDispositions}
    \cup {[k \in {"content-type", "content-disposition"} |->
             IF k = "content-type" THEN ct ELSE cd] :
          ct \in ContentTypes, cd \in ContentDispositions}

\* Response bodies, as bytes.
Bodies == {<< >>, <<97>>, <<97, 98, 99>>}

\* Character of an ASCII byte.
Chr(b) == CHOOSE c \in DOMAIN Ord : Ord[c] = b

\* Response.text: the content decoded to characters.
text(content) == [i \in 1..Len(content) |-> Chr(content[i])]

\* A response without a message body on the wire has empty content.
ContentsFor(status) == IF status = 304 THEN {<< >>} ELSE Bodies

\* httpx.RequestError subclasses raised by the transport, with str(exc).
TransportErrors ==
    {[name |-> "ConnectError", message |-> <<"All connection attempts failed">>],
     [name |-> "ConnectError", message |-> <<"[Errno -2] Name or service not known">>],
     [name |-> "ConnectError", message |-> <<"[SSL: CERTIFICATE_VERIFY_FAILED]">>],
     [name |-> "ReadTimeout", message |-> << >>]}

TooManyRedirectsError ==
    [name |-> "TooManyRedirects", message |-> <<"Exceeded maximum allowed redirects.">>]

UpstreamResponse(status, headers, content) ==
    [kind |-> "response", status |-> status, headers |-> headers,
     content |-> content, error |-> << >>]

UpstreamFailure(kind, err) ==
    [kind |-> kind, status |-> 0, headers |-> NoEntries, content |-> << >>,
     error |-> err]


\* Final upstream responses (after any redirects).
UpstreamAnswers ==
    {UpstreamResponse(st, h, c) :
        st \in SuccessStatuses \cup ErrorStatuses, h \in UpstreamHeaders, c \in Bodies}

\* A few of them, used where the `url` values are enumerated in full.
FewAnswers ==
    {UpstreamResponse(st, h, c) :
        st \in {200, 404},
        h \in {NoEntries, [k \in {"content-type"} |-> "video/mp4"]},
        c \in {<<97, 98, 99>>}}

\* Response.is_success; raise_for_status() raises HTTPStatusError otherwise.
is_success(status) == status >= 200 /\ status <= 299

(* ------------------------------- state --------------------------------- *)

VARIABLES
    pc,         \* request -> "idle" | "pending" | "done"
    path,       \* request -> route of the request
    query,      \* request -> query parameters
    origin,     \* request -> whether the request carries an Origin header
    target,     \* request -> full_target_url
    gets,       \* request -> number of client.get invocations
    calls,      \* request -> number of outbound network requests issued
    hops,       \* request -> number of redirects followed
    upstream,   \* request -> how the outbound call ended
    resp,       \* request -> the response sent to the client
    sent        \* request -> number of responses sent

vars == <<pc, path, query, origin, target, gets, calls, hops, upstream, resp, sent>>

Init ==
    /\ pc = [r \in Requests |-> "idle"]
    /\ path = [r \in Requests |-> ""]
    /\ query = [r \in Requests |-> NoEntries]
    /\ origin = [r \in Requests |-> FALSE]
    /\ target = [r \in Requests |-> << >>]
    /\ gets = [r \in Requests |-> 0]
    /\ calls = [r \in Requests |-> 0]
    /\ hops = [r \in Requests |-> 0]
    /\ upstream = [r \in Requests |-> NoUpstream]
    /\ resp = [r \in Requests |-> NoResponse]
    /\ sent = [r \in Requests |-> 0]

(* --------------------------- proxy_request ----------------------------- *)

\* f"{TARGET_API_BASE_URL}?url={encoded_inner_url}"
full_target_url(url) == <<TARGET_API_BASE_URL, "?url=">> \o quote(url)

\* The request arrives: its route, query and headers are recorded.
Arrive(r, p, q, org) ==
    /\ pc[r] = "idle"
    /\ path' = [path EXCEPT ![r] = p]
    /\ query' = [query EXCEPT ![r] = q]
    /\ origin' = [origin EXCEPT ![r] = org]

\* The response kept in one variable shared by all requests.
Finish_global(r, response) ==
    /\ pc' = [pc EXCEPT ![r] = "done"]
    /\ resp' = [s \in Requests |-> response]
    /\ sent' = [sent EXCEPT ![r] = sent[r] + 1]

\* The request is answered with `response`.
Finish(r, response) ==
    /\ pc' = [pc EXCEPT ![r] = "done"]
    /\ resp' = [resp EXCEPT ![r] = response]
    /\ sent' = [sent EXCEPT ![r] = sent[r] + 1]

UrlQuery(u) == [k \in {"url"} |-> u]

\* GET /
root(r) ==
    /\ pc[r] = "idle"
    /\ \E org \in BOOLEAN : Arrive(r, "/", NoEntries, org)
    /\ Finish(r, CORSMiddleware(
            JSONResponse("message",
                <<"Welcome to the TeleSocial Proxy API. Use /api/proxy?url=<target_url> to make a request.">>,
                200),
            origin'[r]))
    /\ UNCHANGED <<target, gets, calls, hops, upstream>>

\* GET /api/proxy without a `url` parameter: url is declared Query(...),
\* required, so the framework answers before proxy_request runs.
ProxyMissing(r) ==
    /\ pc[r] = "idle"
    /\ \E org \in BOOLEAN : Arrive(r, "/api/proxy", NoEntries, org)
    /\ Finish(r, CORSMiddleware(
            JSONResponse("detail", <<"Field required">>, 422), origin'[r]))
    /\ UNCHANGED <<target, gets, calls, hops, upstream>>

\* GET /api/proxy?url= : `if not url` raises the 400.
ProxyEmpty(r, urls) ==
    /\ pc[r] = "idle"
    /\ << >> \in urls
    /\ \E org \in BOOLEAN : Arrive(r, "/api/proxy", UrlQuery(<< >>), org)
    /\ Finish(r, CORSMiddleware(
            HTTPException(400, <<"The 'url' query parameter is required.">>),
            origin'[r]))
    /\ UNCHANGED <<target, gets, calls, hops, upstream>>

\* The url is encoded and the target built; constructing the client raises.
\* This is outside the try block, so the exception leaves the handler.
ProxyClientFault(r, urls) ==
    /\ pc[r] = "idle"
    /\ \E u \in urls \ {<< >>}, org \in BOOLEAN :
          /\ Arrive(r, "/api/proxy", UrlQuery(u), org)
          /\ target' = [target EXCEPT ![r] = full_target_url(u)]
    /\ upstream' = [upstream EXCEPT ![r] =
            UpstreamFailure("ClientError", <<"client construction failed">>)]
    /\ Finish(r, ServerError)
    /\ UNCHANGED <<gets, calls, hops>>

\* except Exception as e
UnexpectedDetail(e) ==
    <<"An unexpected internal server error occurred: ">> \o e

\* client.get raises something that is not an httpx.RequestError before any
\* request is sent (httpx.InvalidURL): `except Exception` answers 500.
ProxyGetFault(r, urls) ==
    /\ pc[r] = "idle"
    /\ \E u \in urls \ {<< >>}, org \in BOOLEAN :
          /\ Arrive(r, "/api/proxy", UrlQuery(u), org)
          /\ target' = [target EXCEPT ![r] = full_target_url(u)]
    /\ gets' = [gets EXCEPT ![r] = gets[r] + 1]
    /\ upstream' = [upstream EXCEPT ![r] =
            UpstreamFailure("GetError", <<"Invalid URL">>)]
    /\ Finish(r, CORSMiddleware(
            HTTPException(500, UnexpectedDetail(upstream'[r].error)), origin'[r]))
    /\ UNCHANGED <<calls, hops>>

\* The handler runs up to `await client.get(full_target_url)`: the first
\* outbound request is issued and the handler suspends.
ProxyDispatch(r, urls) ==
    /\ pc[r] = "idle"
    /\ \E u \in urls \ {<< >>}, org \in BOOLEAN :
          /\ Arrive(r, "/api/proxy", UrlQuery(u), org)
          /\ target' = [target EXCEPT ![r] = full_target_url(u)]
    /\ pc' = [pc EXCEPT ![r] = "pending"]
    /\ gets' = [gets EXCEPT ![r] = gets[r] + 1]
    /\ calls' = [calls EXCEPT ![r] = calls[r] + 1]
    /\ UNCHANGED <<hops, upstream, resp, sent>>


\* follow_redirects=True: the upstream answers with a redirect that has a
\* Location; the client issues the next request itself.
FollowRedirect(r) ==
    /\ pc[r] = "pending"
    /\ hops[r] < MaxRedirects
    /\ hops' = [hops EXCEPT ![r] = hops[r] + 1]
    /\ calls' = [calls EXCEPT ![r] = calls[r] + 1]
    /\ UNCHANGED <<pc, path, query, origin, target, gets, upstream, resp, sent>>

\* The transport failure answered by the generic handler.
RequestErrorResponse_generic(exc) ==
    HTTPException(500,
        <<"An unexpected internal server error occurred: ">> \o exc.message)

\* except httpx.RequestError as exc
RequestErrorResponse(exc) ==
    HTTPException(502,
        <<"Could not connect to the target API (", TARGET_API_BASE_URL, "): ">>
        \o exc.message)

\* One more redirect than the client allows: TooManyRedirects, which is
\* an httpx.RequestError.
RedirectLimit(r) ==
    /\ pc[r] = "pending"
    /\ hops[r] = MaxRedirects
    /\ upstream' = [upstream EXCEPT ![r] =
            UpstreamFailure("RequestError", TooManyRedirectsError.message)]
    /\ Finish(r, CORSMiddleware(RequestErrorResponse(TooManyRedirectsError), origin[r]))
    /\ UNCHANGED <<path, query, origin, target, gets, calls, hops>>

\* The call retried once after a transport failure.
TransportFail_retry(r) ==
    /\ pc[r] = "pending"
    /\ \E exc \in TransportErrors :
          /\ upstream' = [upstream EXCEPT ![r] =
                UpstreamFailure("RequestError", exc.message)]
          /\ Finish(r, CORSMiddleware(RequestErrorResponse(exc), origin[r]))
    /\ calls' = [calls EXCEPT ![r] = calls[r] + 1]
    /\ UNCHANGED <<path, query, origin, target, gets, hops>>

\* DNS failure, refused connection, timeout, TLS failure.
TransportFail(r) ==
    /\ pc[r] = "pending"
    /\ \E exc \in TransportErrors :
          /\ upstream' = [upstream EXCEPT ![r] =
                UpstreamFailure("RequestError", exc.message)]
          /\ Finish(r, CORSMiddleware(RequestErrorResponse(exc), origin[r]))
    /\ UNCHANGED <<path, query, origin, target, gets, calls, hops>>

\* Only the content type forwarded.
response_headers_no_disposition(up) ==
    [k \in {"Content-Type"} |->
        Get(up.headers, "content-type", "application/octet-stream")]

\* Lines 64-72: the headers of the service's response.
response_headers(up) ==
    LET content_type == Get(up.headers, "content-type", "application/octet-stream")
    IN  [k \in {"Content-Type"}
               \cup (IF "content-disposition" \in DOMAIN up.headers
                     THEN {"Content-Disposition"} ELSE {}) |->
            IF k = "Content-Type" THEN content_type
            ELSE up.headers["content-disposition"]]

\* The relayed response with the default status.
SuccessResponse_status_200(up) ==
    Response(up.content, 200, response_headers(up))

\* Lines 75-79: return Response(content, status_code, headers)
SuccessResponse(up) ==
    Response(up.content, up.status, response_headers(up))

\* The final upstream response is 2xx: it is relayed.
UpstreamSuccess(r, answers) ==
    /\ pc[r] = "pending"
    /\ \E up \in answers :
          /\ is_success(up.status)
          /\ upstream' = [upstream EXCEPT ![r] = up]
          /\ Finish(r, CORSMiddleware(SuccessResponse(up), origin[r]))
    /\ UNCHANGED <<path, query, origin, target, gets, calls, hops>>

\* The final upstream response is 2xx, and building the service's response
\* raises: `except Exception` answers 500.
UpstreamBuildFault(r, answers) ==
    /\ pc[r] = "pending"
    /\ \E up \in answers :
          /\ is_success(up.status)
          /\ upstream' = [upstream EXCEPT ![r] =
                [up EXCEPT !.kind = "BuildError", !.error = <<"response building failed">>]]
          /\ Finish(r, CORSMiddleware(
                HTTPException(500, UnexpectedDetail(upstream'[r].error)), origin[r]))
    /\ UNCHANGED <<path, query, origin, target, gets, calls, hops>>

\* The detail built from str(exc) instead of the response text.
StatusErrorResponse_str_exc(up) ==
    HTTPException(up.status,
        <<"Error from target API (", TARGET_API_BASE_URL, "): ", "Client error for url">>)

\* except httpx.HTTPStatusError as exc
StatusErrorResponse(up) ==
    HTTPException(up.status,
        <<"Error from target API (", TARGET_API_BASE_URL, "): ">> \o text(up.content))

\* The final upstream response is not 2xx: raise_for_status() raises.
UpstreamStatusError(r, answers) ==
    /\ pc[r] = "pending"
    /\ \E up \in answers :
          /\ ~ is_success(up.status)
          /\ up.content \in ContentsFor(up.status)
          /\ upstream' = [upstream EXCEPT ![r] = up]
          /\ Finish(r, CORSMiddleware(StatusErrorResponse(up), origin[r]))
    /\ UNCHANGED <<path, query, origin, target, gets, calls, hops>>

(* --------------------------- specifications ---------------------------- *)

\* What the upstream and the client do for a suspended request.
Complete(r, answers) ==
    \/ FollowRedirect(r)
    \/ RedirectLimit(r)
    \/ TransportFail(r)
    \/ UpstreamSuccess(r, answers)
    \/ UpstreamBuildFault(r, answers)
    \/ UpstreamStatusError(r, answers)

Handle(r, urls, answers) ==
    \/ root(r)
    \/ ProxyMissing(r)
    \/ ProxyEmpty(r, urls)
    \/ ProxyClientFault(r, urls)
    \/ ProxyGetFault(r, urls)
    \/ ProxyDispatch(r, urls)
    \/ Complete(r, answers)

\* One request, every upstream answer.
Next == Handle("r1", FewUrls, UpstreamAnswers)

Spec == Init /\ [][Next]_vars

\* One request, every `url` value.
NextUrl == Handle("r1", Urls, FewAnswers)

SpecUrl == Init /\ [][NextUrl]_vars

\* Two requests handled concurrently; the upstream answers each, or the
\* client's timeout fires.
NextConc == \E r \in Requests : Handle(r, FewUrls, FewAnswers)

SpecConc ==
    /\ Init
    /\ [][NextConc]_vars
    /\ \A r \in Requests : WF_vars(Complete(r, FewAnswers))


(* ------------------------------- claims -------------------------------- *)

Done(r) == pc[r] = "done"

IsProxy(r) == path[r] = "/api/proxy"

HasUrl(r) == IsProxy(r) /\ "url" \in DOMAIN query[r] /\ query[r]["url"] # << >>

\* The final upstream response was relayed or turned into an error by
\* raise_for_status.
Answered(r) == upstream[r].kind = "response"

\* `needle` occurs in `hay` as a contiguous run.
Contains(hay, needle) ==
    \E i \in 0..(Len(hay) - Len(needle)) :
        \A j \in 1..Len(needle) : hay[i + j] = needle[j]

\* C1: a /api/proxy request whose `url` is empty or omitted is answered 400
\* and no outbound request is issued for it.
C1_MissingUrlIs400 ==
    \A r \in Requests :
        (Done(r) /\ IsProxy(r) /\ ~ HasUrl(r)) =>
            (resp[r].status = 400 /\ calls[r] = 0 /\ gets[r] = 0)

\* C2: on the success path the response has exactly the upstream's status
\* code and exactly the upstream's body bytes.
C2_SuccessMirrorsStatusAndBody ==
    \A r \in Requests :
        (Done(r) /\ Answered(r) /\ is_success(upstream[r].status)) =>
            /\ resp[r].status = upstream[r].status
            /\ resp[r].media = "raw"
            /\ resp[r].content = upstream[r].content

C2_Witness ==
    \E r \in Requests :
        /\ Done(r) /\ Answered(r)
        /\ upstream[r].status = 206
        /\ upstream[r].content = <<97, 98, 99>>
        /\ resp[r].status = 206

\* C3: when the upstream's final answer is not 2xx, the response carries the
\* upstream's status code and its message contains the upstream's body text.
C3_StatusErrorPropagated ==
    \A r \in Requests :
        (Done(r) /\ Answered(r) /\ ~ is_success(upstream[r].status)) =>
            /\ resp[r].status = upstream[r].status
            /\ resp[r].media # "raw"
            /\ Contains(resp[r].content, text(upstream[r].content))

C3_Witness ==
    \E r \in Requests :
        /\ Done(r) /\ Answered(r)
        /\ upstream[r].status = 404
        /\ upstream[r].content = <<97, 98, 99>>
        /\ resp[r].status = 404

\* C4: a transport-level failure of the outbound call is answered 502.
C4_TransportFailureIs502 ==
    \A r \in Requests :
        (Done(r) /\ upstream[r].kind = "RequestError") => resp[r].status = 502

C4_Witness ==
    \E r \in Requests :
        /\ Done(r)
        /\ upstream[r].kind = "RequestError"
        /\ upstream[r].error = <<"All connection attempts failed">>
        /\ resp[r].status = 502

\* C5: every response, on every route and for every outcome, carries the
\* wildcard Access-Control-Allow-Origin header, whatever the request's
\* headers were.
C5_EveryResponseHasAllowOrigin ==
    \A r \in Requests :
        Done(r) =>
            /\ "access-control-allow-origin" \in DOMAIN resp[r].headers
            /\ resp[r].headers["access-control-allow-origin"] = "*"


\* Characters that may not appear unescaped in a query value: the reserved
\* delimiters, the space and anything outside ASCII.
ReservedChars ==
    {":", "/", "?", "#", "[", "]", "@", "!", "$", "&", "'", "(", ")", "*",
     "+", ",", ";", "=", " ", "U+00E9"}

IsHex(c) == \E i \in 1..16 : HexDigits[i] = c

HexVal(c) == (CHOOSE i \in 1..16 : HexDigits[i] = c) - 1

\* Percent-decoding of a query value to bytes: %XX is a byte, "+" a space,
\* anything else stands for itself.
RECURSIVE UnquoteBytes(_)
UnquoteBytes(s) ==
    IF s = << >> THEN << >>
    ELSE IF Head(s) = "%" /\ Len(s) >= 3 /\ IsHex(s[2]) /\ IsHex(s[3])
         THEN <<16 * HexVal(s[2]) + HexVal(s[3])>> \o UnquoteBytes(SubSeq(s, 4, Len(s)))
    ELSE IF Head(s) = "+" THEN <<32>> \o UnquoteBytes(Tail(s))
    ELSE Utf8(Head(s)) \o UnquoteBytes(Tail(s))

\* UTF-8 decoding of bytes to characters (one- and two-byte sequences).
RECURSIVE Utf8Decode(_)
Utf8Decode(bs) ==
    IF bs = << >> THEN << >>
    ELSE IF Head(bs) < 128 THEN <<Chr(Head(bs))>> \o Utf8Decode(Tail(bs))
    ELSE <<Chr((Head(bs) - 192) * 64 + (bs[2] - 128))>> \o Utf8Decode(SubSeq(bs, 3, Len(bs)))

Unquote(s) == Utf8Decode(UnquoteBytes(s))

\* The query value of the outbound target: what follows base and "?url=".
OutboundValue(r) == SubSeq(target[r], 3, Len(target[r]))

\* C6: for a non-empty `url` the outbound target is the base URL, "?url=",
\* and an encoding of `url` in which no reserved character is left
\* unescaped and whose percent-decoding is `url` again.
C6_TargetEncodesUrl ==
    \A r \in Requests :
        (HasUrl(r) /\ pc[r] # "idle") =>
            /\ Len(target[r]) >= 3
            /\ target[r][1] = TARGET_API_BASE_URL
            /\ target[r][2] = "?url="
            /\ \A i \in 1..Len(OutboundValue(r)) : OutboundValue(r)[i] \notin ReservedChars
            /\ Unquote(OutboundValue(r)) = query[r]["url"]

C6_Witness ==
    \E r \in Requests :
        /\ pc[r] = "pending"
        /\ query[r]["url"] = <<"/", "%">>
        /\ OutboundValue(r) = <<"%", "2", "F", "%", "2", "5">>

\* The handler reached `await client.get(...)` and a request went out.
Dispatched(r) == calls[r] >= 1

\* C7 as stated, for a request whose outbound call was dispatched: exactly
\* one outbound network call over the whole life of the request, no second
\* call after a redirect.
C7_ExactlyOneCall ==
    \A r \in Requests : Dispatched(r) => calls[r] = 1

\* C7 as amended: client.get is invoked at most once; once a request went
\* out, the calls are that one plus one per redirect followed, within the
\* client's redirect limit; nothing goes out when the handler ends before
\* dispatch or for a request without a `url`.
C7_OneGetPlusRedirects ==
    \A r \in Requests :
        /\ gets[r] <= 1
        /\ hops[r] <= MaxRedirects
        /\ calls[r] =
             IF pc[r] = "idle" \/ gets[r] = 0 \/ upstream[r].kind = "GetError"
             THEN 0
             ELSE 1 + hops[r]
        /\ ~ HasUrl(r) => calls[r] = 0

C7_Witness ==
    \E r \in Requests :
        /\ Done(r)
        /\ upstream[r].kind = "RequestError"
        /\ hops[r] = 1
        /\ calls[r] = 2

\* C8: on the success path Content-Type is the upstream's content-type, or
\* application/octet-stream when the upstream has none, and
\* Content-Disposition is present exactly when the upstream supplied it,
\* with the same value.
C8_HeadersMirrorUpstream ==
    \A r \in Requests :
        (Done(r) /\ Answered(r) /\ is_success(upstream[r].status)) =>
            LET up == upstream[r].headers
                out == resp[r].headers
            IN  /\ "Content-Type" \in DOMAIN out
                /\ "content-type" \in DOMAIN up => out["Content-Type"] = up["content-type"]
                /\ "content-type" \notin DOMAIN up =>
                       out["Content-Type"] = "application/octet-stream"
                /\ ("Content-Disposition" \in DOMAIN out) <=>
                       ("content-disposition" \in DOMAIN up)
                /\ "content-disposition" \in DOMAIN up =>
                       out["Content-Disposition"] = up["content-disposition"]

C8_Witness ==
    \E r \in Requests :
        /\ Done(r) /\ Answered(r) /\ is_success(upstream[r].status)
        /\ DOMAIN upstream[r].headers = {"content-disposition"}
        /\ resp[r].headers["Content-Disposition"] = "inline"
        /\ resp[r].headers["Content-Type"] = "application/octet-stream"

\* C9: a failure that is neither a missing parameter, an upstream status
\* nor a transport failure is answered 500 with a message that includes the
\* error text, wherever in the handler it arises.
C9_UnexpectedIs500WithText ==
    \A r \in Requests :
        (Done(r) /\ upstream[r].kind \in {"ClientError", "GetError", "BuildError"}) =>
            /\ resp[r].status = 500
            /\ Contains(resp[r].content, upstream[r].error)


\* Everything the service holds for one request.
RequestState(r) ==
    <<pc[r], path[r], query[r], origin[r], target[r], gets[r], calls[r],
      hops[r], upstream[r], resp[r], sent[r]>>

\* The outcomes a finished /api/proxy request holds.
Outcomes(r) ==
    (IF resp[r].media = "raw" THEN {"Forwarded"} ELSE {})
    \cup (IF upstream[r].kind = "none" THEN {"MissingParameter"} ELSE {})
    \cup (IF Answered(r) /\ ~ is_success(upstream[r].status)
          THEN {"UpstreamStatusError"} ELSE {})
    \cup (IF upstream[r].kind = "RequestError" THEN {"UpstreamUnreachable"} ELSE {})
    \cup (IF upstream[r].kind \in {"ClientError", "GetError", "BuildError"}
          THEN {"Unexpected"} ELSE {})

\* C10: a suspended request only ever moves to done, and does so eventually;
\* done is terminal and holds one response with exactly one outcome; a step
\* for one request leaves every other request's state as it was.
C10_RequestLifecycle ==
    /\ [](\A r \in Requests : sent[r] = IF Done(r) THEN 1 ELSE 0)
    /\ [](\A r \in Requests : (Done(r) /\ IsProxy(r)) => Cardinality(Outcomes(r)) = 1)
    /\ [][\A r \in Requests : pc[r] = "pending" => pc'[r] \in {"pending", "done"}]_vars
    /\ [][\A r \in Requests : Done(r) => RequestState(r)' = RequestState(r)]_vars
    /\ [][\E r \in Requests :
            \A s \in Requests \ {r} : RequestState(s)' = RequestState(s)]_vars
    /\ \A r \in Requests : (pc[r] = "pending") ~> Done(r)

C10_Witness ==
    /\ Done("r1") /\ resp["r1"].media = "raw"
    /\ Done("r2") /\ upstream["r2"].kind = "RequestError"
    /\ hops["r2"] = 1

=============================================================================
